---- MODULE Spec2Model ----
(***************************************************************************)
(* create-k4: a CLI that scaffolds a pnpm/turborepo monorepo               *)
(* (initializeMonorepo) and adds apps to it (initializeApp).               *)
(*                                                                         *)
(* The model is the tool's own sequence of file-system calls, process      *)
(* spawns, prompt and await points, run against an explicit file system    *)
(* and an explicit process working directory.                              *)
(*                                                                         *)
(* Strings that the code computes with (project and app names, the output  *)
(* of the version probe) are sequences of tokens; a path segment is such   *)
(* a sequence and a path is a sequence of segments.  The token "/" is the  *)
(* path separator, ".." the parent segment, "-" the hyphen.                *)
(*                                                                         *)
(* External programs are not part of the source.  Their exit status is     *)
(* a nondeterministic input; of their file effects only the ones the       *)
(* source relies on are modelled (create-next-app creates the app          *)
(* directory, its files and possibly a .git directory).                    *)
(***************************************************************************)
EXTENDS Integers, Sequences, FiniteSets, TLC

VARIABLES
    fs,           \* the file system: absolute path -> [kind, content]
    cwd,          \* process.cwd() of the running process
    status,       \* "idle" | "running" | "done" | "failed" | "hung"
    op,           \* "init" | "app": the command the CLI dispatched
    name,         \* the <name> argument
    optNext,      \* options.next
    optNode,      \* options.node
    type,         \* the local `type` of initializeApp: "none" | "next" | "node"
    pc,           \* index of the next step of the running handler
    cur,          \* the step at pc: the statement the handler executes next
    pnpmVersion,  \* the local `pnpmVersion` of initializeMonorepo
    err,          \* code of the exception that ended the run, or "none"
    failedAt,     \* index of the step that threw, or 0
    cmdLog,       \* external commands this run started and saw exit, in order
    writeLog,     \* writeFileSync calls completed by this run, in order
    startFs,      \* the file system when the run was started
    startCwd,     \* the directory the process was started in
    prompts,      \* number of times the choice prompt was shown in this run
    logged,       \* TRUE once the "initialized successfully" line is printed
    mkdirLog,     \* directories created by this run's mkdirSync calls
    prev,         \* how the previous run of the same command line ended, or "none"
    runs,         \* number of process invocations so far
    pending,      \* asynchronous calls in flight: "format" | "select"
    suspended,    \* TRUE while the handler is parked on an await
    main,         \* the module's top-level code: "none" | "parse" | "ended"
    exitCode      \* the exit status of the process, -1 while it has not exited

\* what the handler itself reads and writes
handlerVars == <<fs, cwd, status, op, name, optNext, optNode, type, pc, cur, pnpmVersion,
                 err, failedAt, cmdLog, writeLog, startFs, startCwd, prompts, logged,
                 mkdirLog, prev, runs, pending, suspended>>

vars == <<handlerVars, main, exitCode>>

----------------------------------------------------------------------------
(* Bounds *)

\* number of times the same command line is invoked in one behaviour
MaxRuns == 2

\* largest number of ".." segments in an app name
MaxUp == 2

\* longest output of `pnpm --version`, in tokens
MaxProbeLen == 2

----------------------------------------------------------------------------
(* Strings and paths *)

\* a path written as a literal in the source: "packages/db" is Lit(<<"packages","db">>)
Lit(ss) == [i \in 1..Len(ss) |-> <<ss[i]>>]

Last(s) == s[Len(s)]

Front(s) == SubSeq(s, 1, Len(s) - 1)

\* the segments of a string, split at the separator
RECURSIVE SplitAcc(_, _, _)
SplitAcc(toks, seg, acc) ==
    IF toks = <<>> THEN Append(acc, seg)
    ELSE IF Head(toks) = "/" THEN SplitAcc(Tail(toks), <<>>, Append(acc, seg))
    ELSE SplitAcc(Tail(toks), Append(seg, Head(toks)), acc)

Split(toks) == SplitAcc(toks, <<>>, <<>>)

\* path.normalize on a relative path: "" and "." segments vanish, ".." removes
\* the segment before it, and a ".." with nothing before it is kept
RECURSIVE NormalizeRelAcc(_, _)
NormalizeRelAcc(segs, acc) ==
    IF segs = <<>> THEN acc
    ELSE LET s == Head(segs) IN
         IF s = <<>> \/ s = <<".">> THEN NormalizeRelAcc(Tail(segs), acc)
         ELSE IF s = <<"..">> THEN
              IF acc # <<>> /\ Last(acc) # <<"..">>
              THEN NormalizeRelAcc(Tail(segs), Front(acc))
              ELSE NormalizeRelAcc(Tail(segs), Append(acc, s))
         ELSE NormalizeRelAcc(Tail(segs), Append(acc, s))

NormalizeRel(segs) == NormalizeRelAcc(segs, <<>>)

\* path.join(a, b) for relative a
pathJoin(a, b) == NormalizeRel(a \o b)

\* resolution of a path against an absolute directory: ".." at the file-system
\* root stays at the root
RECURSIVE NormalizeAbsAcc(_, _)
NormalizeAbsAcc(segs, acc) ==
    IF segs = <<>> THEN acc
    ELSE LET s == Head(segs) IN
         IF s = <<>> \/ s = <<".">> THEN NormalizeAbsAcc(Tail(segs), acc)
         ELSE IF s = <<"..">> THEN
              NormalizeAbsAcc(Tail(segs), IF acc = <<>> THEN acc ELSE Front(acc))
         ELSE NormalizeAbsAcc(Tail(segs), Append(acc, s))

Resolve(dir, rel) == NormalizeAbsAcc(rel, dir)

\* path.dirname of a relative path with at least one segment
dirname(p) == Front(p)

IsPrefix(p, q) == Len(p) <= Len(q) /\ SubSeq(q, 1, Len(p)) = p

\* String.prototype.trim on a token string; "ws" is a whitespace token
RECURSIVE TrimLeft(_)
TrimLeft(s) == IF s # <<>> /\ Head(s) = "ws" THEN TrimLeft(Tail(s)) ELSE s

RECURSIVE TrimRight(_)
TrimRight(s) == IF s # <<>> /\ Last(s) = "ws" THEN TrimRight(Front(s)) ELSE s

trim(s) == TrimRight(TrimLeft(s))

----------------------------------------------------------------------------
(* The file system *)

NoContent == [tpl |-> "", name |-> <<>>, extra |-> <<>>]

Dir == [kind |-> "dir", content |-> NoContent]

File(c) == [kind |-> "file", content |-> c]

Content(t, n, e) == [tpl |-> t, name |-> n, extra |-> e]

existsSync(f, p) == p \in DOMAIN f

IsDir(f, p) == p \in DOMAIN f /\ f[p].kind = "dir"

IsFile(f, p) == p \in DOMAIN f /\ f[p].kind = "file"

Put(f, p, e) == [q \in DOMAIN f \cup {p} |-> IF q = p THEN e ELSE f[q]]

Prefixes(p) == {SubSeq(p, 1, n) : n \in 0..Len(p)}

Ok(f) == [ok |-> TRUE, err |-> "none", fs |-> f]

Fail(f, e) == [ok |-> FALSE, err |-> e, fs |-> f]

\* mutant: every mkdirSync behaves as if { recursive: true } were given
mkdirSync_AlwaysRecursive(f, p, recursive) ==
    IF \E q \in Prefixes(p) : IsFile(f, q)
    THEN Fail(f, IF IsFile(f, p) THEN "EEXIST" ELSE "ENOTDIR")
    ELSE Ok([q \in DOMAIN f \cup Prefixes(p) |-> IF q \in DOMAIN f THEN f[q] ELSE Dir])

\* fs.mkdirSync(p) and fs.mkdirSync(p, { recursive: true }) on an absolute path
mkdirSync(f, p, recursive) ==
    IF recursive THEN
        IF \E q \in Prefixes(p) : IsFile(f, q)
        THEN Fail(f, IF IsFile(f, p) THEN "EEXIST" ELSE "ENOTDIR")
        ELSE Ok([q \in DOMAIN f \cup Prefixes(p) |->
                    IF q \in DOMAIN f THEN f[q] ELSE Dir])
    ELSE IF existsSync(f, p) THEN Fail(f, "EEXIST")
    ELSE IF ~existsSync(f, Front(p)) THEN Fail(f, "ENOENT")
    ELSE IF ~IsDir(f, Front(p)) THEN Fail(f, "ENOTDIR")
    ELSE Ok(Put(f, p, Dir))

\* fs.writeFileSync(p, content) on an absolute path: creates or replaces the file
writeFileSync(f, p, c) ==
    IF IsDir(f, p) THEN Fail(f, "EISDIR")
    ELSE IF ~existsSync(f, Front(p)) THEN Fail(f, "ENOENT")
    ELSE IF ~IsDir(f, Front(p)) THEN Fail(f, "ENOTDIR")
    ELSE Ok(Put(f, p, File(c)))

\* fs.rmSync(p, { recursive: true, force: true })
rmSync(f, p) == [q \in {r \in DOMAIN f : ~IsPrefix(p, r)} |-> f[q]]

----------------------------------------------------------------------------
(* Steps: the calls a handler makes, in program order *)

Step(k, p, r, c, m, l) ==
    [kind |-> k, path |-> p, recursive |-> r, content |-> c, cmd |-> m, line |-> l]

\* fs.mkdirSync(p [, { recursive: true }])
Mkdir(p, r, l) == Step("mkdir", p, r, NoContent, "", l)

\* fs.writeFileSync(p, c)
Write(p, c, l) == Step("write", p, FALSE, c, "", l)

\* execSync(m, { stdio: "inherit", cwd: d }); d = <<>> when no cwd is given
Exec(m, d, l) == Step("exec", d, FALSE, NoContent, m, l)

\* execSync(`npx create-next-app@latest ${appDir} ...`)
ExecGenerator(appDir, l) == Step("generate", appDir, FALSE, NoContent, "npx create-next-app@latest", l)

\* process.chdir(p)
Chdir(p, l) == Step("chdir", p, FALSE, NoContent, "", l)

\* const pnpmVersion = getPnpmVersion()
Probe(l) == Step("probe", <<>>, FALSE, NoContent, "pnpm --version", l)

\* await prettier.format(...)
Await(l) == Step("await", <<>>, FALSE, NoContent, "", l)

\* if (fs.existsSync(p)) fs.rmSync(p, { recursive: true, force: true })
RmIfExists(p, l) == Step("rm", p, FALSE, NoContent, "", l)

\* type = await select(...), executed only if (!type)
Select(l) == Step("select", <<>>, FALSE, NoContent, "", l)

\* console.log(`... initialized successfully!`)
LogSuccess(l) == Step("log", <<>>, FALSE, NoContent, "", l)

\* one entry of a `files` object: key and content
Entry(k, c) == [key |-> k, content |-> c]

\* Object.entries(files).forEach(([filePath, content]) => { mkdirSync(dirname); writeFileSync })
RECURSIVE writeFiles(_, _, _)
writeFiles(dir, files, l) ==
    IF files = <<>> THEN <<>>
    ELSE LET fullPath == pathJoin(dir, Split(Head(files).key)) IN
         <<Mkdir(dirname(fullPath), TRUE, l + 2), Write(fullPath, Head(files).content, l + 3)>>
         \o writeFiles(dir, Tail(files), l)

createEslintConfig(dir) ==
    <<Write(pathJoin(dir, Lit(<<"eslint.config.js">>)), Content("eslint.config.js", <<>>, <<>>), 232)>>

createPackage(packageName, files) ==
    LET packageDir == pathJoin(Lit(<<"packages">>), Split(packageName)) IN
    <<Mkdir(packageDir, TRUE, 25),
      Mkdir(pathJoin(packageDir, Lit(<<"src">>)), FALSE, 26),
      Write(pathJoin(packageDir, Lit(<<"package.json">>)),
            Content("package/package.json", <<"@repo/">> \o packageName, <<>>), 46),
      Write(pathJoin(packageDir, Lit(<<"tsconfig.json">>)),
            Content("package/tsconfig.json", <<>>, <<>>), 59),
      Write(pathJoin(packageDir, Lit(<<"tsup.config.ts">>)),
            Content("tsup.config.ts", <<>>, <<>>), 74)>>
    \o writeFiles(packageDir, files, 76)
    \o createEslintConfig(packageDir)
    \o <<Exec("pnpm add -D tsup typescript @repo/typescript-config@workspace:* @repo/eslint-config@workspace:*",
              packageDir, 85)>>

\* mutant: the dependencies are installed as soon as package.json is written
createNodeApp_InstallFirst(n, files) ==
    LET appDir == pathJoin(Lit(<<"apps">>), Split(n)) IN
    <<Mkdir(appDir, TRUE, 96),
      Write(pathJoin(appDir, Lit(<<"package.json">>)),
            Content("node-app/package.json", <<"@repo/">> \o n, <<>>), 110),
      Exec("pnpm add @repo/typescript-config@workspace:* @repo/db@workspace:* @repo/queue@workspace:* @repo/eslint-config@workspace:*",
           appDir, 144),
      Exec("pnpm add -D tsup typescript", appDir, 151),
      Write(pathJoin(appDir, Lit(<<"tsconfig.json">>)),
            Content("node-app/tsconfig.json", <<>>, <<>>), 118),
      Write(pathJoin(appDir, Lit(<<"tsup.config.ts">>)),
            Content("tsup.config.ts", <<>>, <<>>), 133)>>
    \o writeFiles(appDir, files, 135)
    \o createEslintConfig(appDir)

createNodeApp(n, files) ==
    LET appDir == pathJoin(Lit(<<"apps">>), Split(n)) IN
    <<Mkdir(appDir, TRUE, 96),
      Write(pathJoin(appDir, Lit(<<"package.json">>)),
            Content("node-app/package.json", <<"@repo/">> \o n, <<>>), 110),
      Write(pathJoin(appDir, Lit(<<"tsconfig.json">>)),
            Content("node-app/tsconfig.json", <<>>, <<>>), 118),
      Write(pathJoin(appDir, Lit(<<"tsup.config.ts">>)),
            Content("tsup.config.ts", <<>>, <<>>), 133)>>
    \o writeFiles(appDir, files, 135)
    \o createEslintConfig(appDir)
    \o <<Exec("pnpm add @repo/typescript-config@workspace:* @repo/db@workspace:* @repo/queue@workspace:* @repo/eslint-config@workspace:*",
              appDir, 144),
         Exec("pnpm add -D tsup typescript", appDir, 151)>>

\* mutant: the template files are written before the generator is run
createNextApp_TemplatesFirst(n, files) ==
    LET appDir == pathJoin(Lit(<<"apps">>), Split(n)) IN
    writeFiles(appDir, files, 174)
    \o <<ExecGenerator(appDir, 161),
         RmIfExists(pathJoin(appDir, Lit(<<".git">>)), 169),
         Exec("pnpm add @repo/db@workspace:* @repo/queue@workspace:*", appDir, 181)>>

createNextApp(n, files) ==
    LET appDir == pathJoin(Lit(<<"apps">>), Split(n)) IN
    <<ExecGenerator(appDir, 161),
      RmIfExists(pathJoin(appDir, Lit(<<".git">>)), 169)>>
    \o writeFiles(appDir, files, 174)
    \o <<Exec("pnpm add @repo/db@workspace:* @repo/queue@workspace:*", appDir, 181)>>

\* mutant: the package is created under packages/eslint
createEslintConfigPackage_WrongDir ==
    LET packageDir == pathJoin(Lit(<<"packages">>), Lit(<<"eslint">>)) IN
    <<Mkdir(packageDir, TRUE, 189),
      Write(pathJoin(packageDir, Lit(<<"package.json">>)),
            Content("eslint-config/package.json", <<"@repo/eslint-config">>, <<>>), 200),
      Write(pathJoin(packageDir, Lit(<<"node.js">>)),
            Content("eslint-config/node.js", <<>>, <<>>), 217),
      Exec("pnpm install @eslint/js typescript-eslint eslint globals", packageDir, 220)>>

\* mutant: the write of the package's package.json is left out
createEslintConfigPackage_NoManifest ==
    LET packageDir == pathJoin(Lit(<<"packages">>), Lit(<<"eslint-config">>)) IN
    <<Mkdir(packageDir, TRUE, 189),
      Write(pathJoin(packageDir, Lit(<<"node.js">>)),
            Content("eslint-config/node.js", <<>>, <<>>), 217),
      Exec("pnpm install @eslint/js typescript-eslint eslint globals", packageDir, 220)>>

createEslintConfigPackage ==
    LET packageDir == pathJoin(Lit(<<"packages">>), Lit(<<"eslint-config">>)) IN
    <<Mkdir(packageDir, TRUE, 189),
      Write(pathJoin(packageDir, Lit(<<"package.json">>)),
            Content("eslint-config/package.json", <<"@repo/eslint-config">>, <<>>), 200),
      Write(pathJoin(packageDir, Lit(<<"node.js">>)),
            Content("eslint-config/node.js", <<>>, <<>>), 217),
      Exec("pnpm install @eslint/js typescript-eslint eslint globals", packageDir, 220)>>

\* mutant: .replace("-", "_") replaces the first hyphen only
replaceHyphens_FirstOnly(s) ==
    [i \in 1..Len(s) |->
        IF s[i] = "-" /\ \A j \in 1..(i - 1) : s[j] # "-" THEN "_" ELSE s[i]]

\* appName.replace(/-/g, "_")
replaceHyphens(s) == [i \in 1..Len(s) |-> IF s[i] = "-" THEN "_" ELSE s[i]]

\* const dbName = `${appName.replace(/-/g, "_")}_dev`
dbName(appName) == replaceHyphens(appName) \o <<"_dev">>

T(t) == Content(t, <<>>, <<>>)

\* the services of dockerComposeConfig and the ports they publish
composeServices == <<"postgres", "5432:5432", "redis", "6379:6379">>

dbFiles(appName) ==
    <<Entry(<<".env">>, Content("db/.env", <<>>, dbName(appName))),
      Entry(<<"prisma", "/", "schema.prisma">>, T("db/prisma/schema.prisma")),
      Entry(<<"src", "/", "util.ts">>, T("db/src/util.ts")),
      Entry(<<"src", "/", "index.ts">>, T("db/src/index.ts")),
      Entry(<<"src", "/", "db.ts">>, T("db/src/db.ts"))>>

queueFiles == <<Entry(<<"src", "/", "index.ts">>, T("queue/src/index.ts"))>>

workerFiles ==
    <<Entry(<<"src", "/", "index.ts">>, T("worker/src/index.ts")),
      Entry(<<"src", "/", "jobs", "/", "generate-posts.ts">>, T("worker/src/jobs/generate-posts.ts"))>>

webFiles ==
    <<Entry(<<"src", "/", "actions.ts">>, T("web/src/actions.ts")),
      Entry(<<"src", "/", "app", "/", "page.tsx">>, T("web/src/app/page.tsx")),
      Entry(<<"src", "/", "app", "/", "globals.css">>, T("web/src/app/globals.css"))>>

helloFiles == <<Entry(<<"src", "/", "index.ts">>, T("hello/src/index.ts"))>>

\* mutant: README.md is written at the very end, after the commit
initializeMonorepo_ReadmeLast(appName, version) ==
    <<Mkdir(Split(appName), FALSE, 237),
      Chdir(Split(appName), 238),
      Write(Lit(<<"pnpm-workspace.yaml">>), T("pnpm-workspace.yaml"), 241),
      Mkdir(Lit(<<"apps">>), FALSE, 247),
      Mkdir(Lit(<<"packages">>), FALSE, 248),
      Probe(251),
      Write(Lit(<<"package.json">>),
            Content("root/package.json", appName, <<"pnpm@">> \o version), 269),
      Exec("pnpm add -w -D @types/node prettier turbo typescript", <<>>, 273),
      Write(Lit(<<".prettierrc">>), T(".prettierrc"), 278),
      Write(Lit(<<".prettierignore">>), T(".prettierignore"), 279),
      Await(307),
      Write(Lit(<<"turbo.json">>), T("turbo.json"), 311),
      Mkdir(Lit(<<"packages", "typescript-config">>), TRUE, 314),
      Write(Lit(<<"packages", "typescript-config", "package.json">>),
            Content("typescript-config/package.json", <<"@repo/typescript-config">>, <<>>), 326),
      Exec("pnpm add -D @tsconfig/node20", Lit(<<"packages", "typescript-config">>), 333),
      Write(Lit(<<"packages", "typescript-config", "base.json">>),
            T("typescript-config/base.json"), 347),
      Mkdir(Lit(<<".vscode">>), TRUE, 356),
      Write(Lit(<<".vscode", "settings.json">>), T(".vscode/settings.json"), 357)>>
    \o createEslintConfigPackage
    \o <<Mkdir(Lit(<<"packages", "docker-dev">>), FALSE, 385),
         Write(Lit(<<"packages", "docker-dev", "compose.yml">>),
               Content("docker-dev/compose.yml", composeServices, dbName(appName)), 386),
         Write(Lit(<<"packages", "docker-dev", "package.json">>),
               Content("docker-dev/package.json", <<"@repo/docker-dev">>, <<>>), 400),
         Write(Lit(<<".gitignore">>), T(".gitignore"), 430),
         Exec("pnpm install", <<>>, 434)>>
    \o createPackage(<<"db">>, dbFiles(appName))
    \o <<Exec("pnpm add @prisma/client nanoid", pathJoin(Lit(<<"packages">>), Lit(<<"db">>)), 540),
         Exec("pnpm add -D prisma", pathJoin(Lit(<<"packages">>), Lit(<<"db">>)), 544)>>
    \o createPackage(<<"queue">>, queueFiles)
    \o <<Exec("pnpm add bullmq ioredis", pathJoin(Lit(<<"packages">>), Lit(<<"queue">>)), 585)>>
    \o createNodeApp(<<"worker">>, workerFiles)
    \o <<Exec("pnpm add bullmq @faker-js/faker", pathJoin(Lit(<<"apps">>), Lit(<<"worker">>)), 663)>>
    \o createNextApp(<<"web">>, webFiles)
    \o <<Exec("pnpm turbo run build --filter=@repo/db --ui stream", <<>>, 833),
         Exec("pnpm format", <<>>, 840),
         Exec("git init", <<>>, 844),
         Exec("git add .", <<>>, 845),
         Exec("git commit -m \"Initial commit\"", <<>>, 846),
         Write(Lit(<<"README.md">>), Content("README.md", appName, <<>>), 829),
         LogSuccess(848)>>

\* the body of initializeMonorepo; `version` is the value of the local
\* pnpmVersion when the root package.json is serialised
initializeMonorepo(appName, version) ==
    <<Mkdir(Split(appName), FALSE, 237),
      Chdir(Split(appName), 238),
      Write(Lit(<<"pnpm-workspace.yaml">>), T("pnpm-workspace.yaml"), 241),
      Mkdir(Lit(<<"apps">>), FALSE, 247),
      Mkdir(Lit(<<"packages">>), FALSE, 248),
      Probe(251),
      Write(Lit(<<"package.json">>),
            Content("root/package.json", appName, <<"pnpm@">> \o version), 269),
      Exec("pnpm add -w -D @types/node prettier turbo typescript", <<>>, 273),
      Write(Lit(<<".prettierrc">>), T(".prettierrc"), 278),
      Write(Lit(<<".prettierignore">>), T(".prettierignore"), 279),
      Await(307),
      Write(Lit(<<"turbo.json">>), T("turbo.json"), 311),
      Mkdir(Lit(<<"packages", "typescript-config">>), TRUE, 314),
      Write(Lit(<<"packages", "typescript-config", "package.json">>),
            Content("typescript-config/package.json", <<"@repo/typescript-config">>, <<>>), 326),
      Exec("pnpm add -D @tsconfig/node20", Lit(<<"packages", "typescript-config">>), 333),
      Write(Lit(<<"packages", "typescript-config", "base.json">>),
            T("typescript-config/base.json"), 347),
      Mkdir(Lit(<<".vscode">>), TRUE, 356),
      Write(Lit(<<".vscode", "settings.json">>), T(".vscode/settings.json"), 357)>>
    \o createEslintConfigPackage
    \o <<Mkdir(Lit(<<"packages", "docker-dev">>), FALSE, 385),
         Write(Lit(<<"packages", "docker-dev", "compose.yml">>),
               Content("docker-dev/compose.yml", composeServices, dbName(appName)), 386),
         Write(Lit(<<"packages", "docker-dev", "package.json">>),
               Content("docker-dev/package.json", <<"@repo/docker-dev">>, <<>>), 400),
         Write(Lit(<<".gitignore">>), T(".gitignore"), 430),
         Exec("pnpm install", <<>>, 434)>>
    \o createPackage(<<"db">>, dbFiles(appName))
    \o <<Exec("pnpm add @prisma/client nanoid", pathJoin(Lit(<<"packages">>), Lit(<<"db">>)), 540),
         Exec("pnpm add -D prisma", pathJoin(Lit(<<"packages">>), Lit(<<"db">>)), 544)>>
    \o createPackage(<<"queue">>, queueFiles)
    \o <<Exec("pnpm add bullmq ioredis", pathJoin(Lit(<<"packages">>), Lit(<<"queue">>)), 585)>>
    \o createNodeApp(<<"worker">>, workerFiles)
    \o <<Exec("pnpm add bullmq @faker-js/faker", pathJoin(Lit(<<"apps">>), Lit(<<"worker">>)), 663)>>
    \o createNextApp(<<"web">>, webFiles)
    \o <<Write(Lit(<<"README.md">>), Content("README.md", appName, <<>>), 829),
         Exec("pnpm turbo run build --filter=@repo/db --ui stream", <<>>, 833),
         Exec("pnpm format", <<>>, 840),
         Exec("git init", <<>>, 844),
         Exec("git add .", <<>>, 845),
         Exec("git commit -m \"Initial commit\"", <<>>, 846),
         LogSuccess(848)>>

\* mutant: the app directory is created before the kind is asked for
initializeApp_MkdirFirst(n, prompt, t) ==
    <<Mkdir(pathJoin(Lit(<<"apps">>), Split(n)), TRUE, 863)>>
    \o (IF prompt THEN <<Select(853)>> ELSE <<>>)
    \o (CASE t = "next" -> createNextApp(n, <<>>)
          [] t = "node" -> createNodeApp(n, helloFiles)
          [] OTHER -> <<>>)
    \o <<LogSuccess(876)>>

\* the body of initializeApp; `prompt` says whether it was entered with
\* type undefined, `t` is the value of the local type at the switch
initializeApp(n, prompt, t) ==
    (IF prompt THEN <<Select(853)>> ELSE <<>>)
    \o <<Mkdir(pathJoin(Lit(<<"apps">>), Split(n)), TRUE, 863)>>
    \o (CASE t = "next" -> createNextApp(n, <<>>)
          [] t = "node" -> createNodeApp(n, helloFiles)
          [] OTHER -> <<>>)
    \o <<LogSuccess(876)>>

\* const type = options.next ? "next" : options.node ? "node" : undefined
typeOfOptions(next, node) == IF next THEN "next" ELSE IF node THEN "node" ELSE "none"

----------------------------------------------------------------------------
(* Inputs *)

\* the directory the user's shell is in
Home == Lit(<<"home">>)

UserFile == File(Content("user", <<>>, <<>>))

\* a machine with nothing under the home directory
EmptyTree == [p \in {<<>>, Home} |-> Dir]

\* a machine with a workspace "ws" in which the user has edited apps/jobs
WorkspaceTree ==
    LET ws == Home \o Lit(<<"ws">>)
        dirs == {<<>>, Home, ws, ws \o Lit(<<"apps">>), ws \o Lit(<<"packages">>),
                 ws \o Lit(<<"apps", "web">>), ws \o Lit(<<"apps", "worker">>),
                 ws \o Lit(<<"apps", "jobs">>), ws \o Lit(<<"apps", "jobs", "src">>)}
        files == {ws \o Lit(<<"package.json">>),
                  ws \o Lit(<<"apps", "web", "package.json">>),
                  ws \o Lit(<<"apps", "worker", "package.json">>),
                  ws \o Lit(<<"apps", "jobs", "package.json">>),
                  ws \o Lit(<<"apps", "jobs", "src", "index.ts">>)}
    IN [p \in dirs \cup files |-> IF p \in dirs THEN Dir ELSE UserFile]

\* a machine where "ws" is a plain file
FileTree == [p \in {<<>>, Home, Home \o Lit(<<"ws">>)} |->
                IF p = Home \o Lit(<<"ws">>) THEN UserFile ELSE Dir]

InitialTrees == {EmptyTree, WorkspaceTree, FileTree}

InitNames == {<<"demo", "-", "app">>, <<"ws">>, <<"a", "-", "b", "-", "c">>}

RECURSIVE Ups(_)
Ups(k) == IF k = 0 THEN <<>> ELSE <<"..", "/">> \o Ups(k - 1)

AppNames ==
    {<<"jobs">>, <<"jobs", "/", "..", "/", "web">>} \cup {Ups(k) \o <<"evil">> : k \in 1..MaxUp}

RECURSIVE SeqsUpTo(_, _)
SeqsUpTo(S, n) ==
    IF n = 0 THEN {<<>>}
    ELSE LET shorter == SeqsUpTo(S, n - 1) IN
         shorter \cup {Append(q, x) : q \in shorter, x \in S}

\* what `pnpm --version` may print: version text "v" and whitespace "ws"
ProbeOutputs == SeqsUpTo({"v", "ws"}, MaxProbeLen)

FallbackVersion == <<"9.7.0">>

\* mutant: the output is used without .trim()
getPnpmVersion_NoTrim(ok, out) == IF ok THEN out ELSE FallbackVersion

\* getPnpmVersion: the trimmed output, or the fallback when execSync throws
getPnpmVersion(ok, out) == IF ok THEN trim(out) ELSE FallbackVersion

----------------------------------------------------------------------------
(* The running handler *)

\* the end of the handler's body
ReturnStep == Step("return", <<>>, FALSE, NoContent, "", 0)

\* no handler is running
NoStep == Step("none", <<>>, FALSE, NoContent, "", 0)

\* the handler is about to execute a statement of kind k
At(k) == status = "running" /\ ~suspended /\ cur.kind = k

\* the body of the handler that command o runs, for given values of its locals
ScriptOf(o, n, a, b, t, v) ==
    IF o = "init" THEN initializeMonorepo(n, v)
    ELSE initializeApp(n, typeOfOptions(a, b) = "none", t)

\* the statement at position k of that body
Fetch(o, n, a, b, t, v, k) ==
    LET s == ScriptOf(o, n, a, b, t, v) IN IF k <= Len(s) THEN s[k] ELSE ReturnStep

\* the body of the running handler with the current values of its locals
Script == ScriptOf(op, name, optNext, optNode, type, pnpmVersion)

Cur == cur

Target == Resolve(cwd, Cur.path)

Init ==
    /\ fs \in InitialTrees
    /\ cwd = Home
    /\ status = "idle"
    /\ op = "none"
    /\ name = <<>>
    /\ optNext = FALSE
    /\ optNode = FALSE
    /\ type = "none"
    /\ pc = 1
    /\ cur = NoStep
    /\ pnpmVersion = <<>>
    /\ err = "none"
    /\ failedAt = 0
    /\ cmdLog = <<>>
    /\ writeLog = <<>>
    /\ startFs = fs
    /\ startCwd = Home
    /\ prompts = 0
    /\ logged = FALSE
    /\ mkdirLog = {}
    /\ prev = "none"
    /\ runs = 0
    /\ pending = {}
    /\ suspended = FALSE
    /\ main = "none"
    /\ exitCode = -1

\* a fresh process: the locals and the logs of the previous one are gone
Fresh(dir) ==
    /\ cwd' = dir
    /\ startCwd' = dir
    /\ startFs' = fs
    /\ status' = "running"
    /\ pc' = 1
    /\ pnpmVersion' = <<>>
    /\ err' = "none"
    /\ failedAt' = 0
    /\ cmdLog' = <<>>
    /\ writeLog' = <<>>
    /\ prompts' = 0
    /\ logged' = FALSE
    /\ mkdirLog' = {}
    /\ runs' = runs + 1
    /\ pending' = {}
    /\ suspended' = FALSE
    /\ main' = "parse"
    /\ exitCode' = -1
    /\ UNCHANGED fs

\* the workspace the user may already have
WorkspaceDir == Home \o Lit(<<"ws">>)

\* program.argument("<name>").action(initializeMonorepo)
InvokeInit ==
    /\ status = "idle"
    /\ \E n \in InitNames :
          /\ name' = n
          /\ cur' = Fetch("init", n, FALSE, FALSE, "none", <<>>, 1)
    /\ op' = "init"
    /\ optNext' = FALSE
    /\ optNode' = FALSE
    /\ type' = "none"
    /\ prev' = "none"
    /\ Fresh(Home)

\* program.command("app <name>").action((name, options) => initializeApp(name, type))
InvokeApp ==
    /\ \/ status = "idle" /\ IsDir(fs, WorkspaceDir \o Lit(<<"apps">>)) /\ Fresh(WorkspaceDir)
       \/ status = "done" /\ op = "init" /\ exitCode # -1 /\ runs < MaxRuns /\ Fresh(cwd)
    /\ op' = "app"
    /\ \E n \in AppNames, a \in BOOLEAN, b \in BOOLEAN :
          /\ name' = n
          /\ optNext' = a
          /\ optNode' = b
          /\ type' = typeOfOptions(a, b)
          /\ cur' = Fetch("app", n, a, b, typeOfOptions(a, b), <<>>, 1)
    /\ prev' = "none"

\* the user runs the same command line again from the same directory
Rerun ==
    /\ status \in {"done", "failed"}
    /\ exitCode # -1
    /\ runs < MaxRuns
    /\ type' = typeOfOptions(optNext, optNode)
    /\ prev' = status
    /\ Fresh(startCwd)
    /\ cur' = Fetch(op, name, optNext, optNode, typeOfOptions(optNext, optNode), <<>>, 1)
    /\ UNCHANGED <<op, name, optNext, optNode>>

\* an exception leaves the handler: nothing after the throwing call runs
Throw(e) ==
    /\ status' = "failed"
    /\ err' = e
    /\ failedAt' = pc
    /\ UNCHANGED <<pc, cur>>

\* control reaches the next statement, with t and v the values of the locals
\* type and pnpmVersion after the current one
AdvanceWith(t, v) ==
    /\ pc' = pc + 1
    /\ cur' = Fetch(op, name, optNext, optNode, t, v, pc + 1)
    /\ UNCHANGED <<status, err, failedAt>>

Advance == AdvanceWith(type, pnpmVersion)

Frame == UNCHANGED <<op, name, optNext, optNode, startFs, startCwd, prev, runs, main, exitCode>>

\* a synchronous call: nothing is left in flight when it returns
Sync == UNCHANGED <<pending, suspended>>

MkdirStep ==
    /\ At("mkdir")
    /\ LET r == mkdirSync(fs, Target, Cur.recursive) IN
          /\ fs' = r.fs
          /\ mkdirLog' = mkdirLog \cup (DOMAIN r.fs \ DOMAIN fs)
          /\ IF r.ok THEN Advance ELSE Throw(r.err)
    /\ UNCHANGED <<cwd, type, pnpmVersion, cmdLog, writeLog, prompts, logged>>
    /\ Frame
    /\ Sync

\* mutant: every file is stamped with the package manager's version
WriteStep_Stamped ==
    /\ At("write")
    /\ LET stamped == [Cur.content EXCEPT !.extra = @ \o pnpmVersion]
           r == writeFileSync(fs, Target, stamped) IN
          /\ fs' = r.fs
          /\ IF r.ok
             THEN /\ Advance
                  /\ writeLog' = Append(writeLog,
                        [path |-> Target, content |-> stamped,
                         existed |-> IsFile(fs, Target), at |-> pc])
             ELSE Throw(r.err) /\ UNCHANGED writeLog
    /\ UNCHANGED <<cwd, type, pnpmVersion, cmdLog, prompts, logged, mkdirLog>>
    /\ Frame
    /\ Sync

WriteStep ==
    /\ At("write")
    /\ LET r == writeFileSync(fs, Target, Cur.content) IN
          /\ fs' = r.fs
          /\ IF r.ok
             THEN /\ Advance
                  /\ writeLog' = Append(writeLog,
                        [path |-> Target, content |-> Cur.content,
                         existed |-> IsFile(fs, Target), at |-> pc])
             ELSE Throw(r.err) /\ UNCHANGED writeLog
    /\ UNCHANGED <<cwd, type, pnpmVersion, cmdLog, prompts, logged, mkdirLog>>
    /\ Frame
    /\ Sync

\* the record of one execSync call: the command, the step that made the call,
\* the directory it ran in (the cwd option, else the process's own), whether it
\* exited with status 0, and what it printed (captured by the probe only)
Started(c, ok, out) ==
    Append(cmdLog, [cmd |-> c.cmd, at |-> pc, line |-> c.line, ok |-> ok, out |-> out,
                    dir |-> IF c.kind = "exec" THEN Resolve(cwd, c.path) ELSE cwd])

\* mutant: a failing command is started a second time before giving up
ExecStep_RetryOnce ==
    /\ At("exec")
    /\ \E exit0 \in BOOLEAN :
          LET ok == exit0 /\ IsDir(fs, Target) IN
          /\ cmdLog' = Started(Cur, ok, <<>>)
          /\ IF ok THEN Advance
             ELSE IF cmdLog # <<>> /\ cmdLog[Len(cmdLog)].at = pc
                  THEN Throw("CommandFailed")
                  ELSE UNCHANGED <<status, err, failedAt, pc, cur>>
    /\ UNCHANGED <<fs, cwd, type, pnpmVersion, writeLog, prompts, logged, mkdirLog>>
    /\ Frame
    /\ Sync

\* mutant: a failing command is followed by a clean-up that restores the tree
ExecStep_Rollback ==
    /\ At("exec")
    /\ \E exit0 \in BOOLEAN :
          LET ok == exit0 /\ IsDir(fs, Target) IN
          /\ cmdLog' = Started(Cur, ok, <<>>)
          /\ IF ok THEN Advance /\ UNCHANGED fs
                   ELSE Throw("CommandFailed") /\ fs' = startFs
    /\ UNCHANGED <<cwd, type, pnpmVersion, writeLog, prompts, logged, mkdirLog>>
    /\ Frame
    /\ Sync

\* execSync of a required command: a non-zero exit (or a missing cwd) throws
ExecStep ==
    /\ At("exec")
    /\ \E exit0 \in BOOLEAN :
          LET ok == exit0 /\ IsDir(fs, Target) IN
          /\ cmdLog' = Started(Cur, ok, <<>>)
          /\ IF ok THEN Advance ELSE Throw("CommandFailed")
    /\ UNCHANGED <<fs, cwd, type, pnpmVersion, writeLog, prompts, logged, mkdirLog>>
    /\ Frame
    /\ Sync

\* mutant: execSync is given a timeout, after which the handler carries on
ExecHangs_TimesOut ==
    /\ status = "running" /\ ~suspended /\ cur.kind \in {"exec", "generate", "probe"}
    /\ cmdLog' = Started(Cur, FALSE, <<>>)
    /\ Advance
    /\ UNCHANGED <<fs, cwd, type, pnpmVersion, writeLog, prompts, logged, mkdirLog>>
    /\ Frame
    /\ Sync

\* execSync has no timeout: a child that never exits keeps the call, and with
\* it the handler and the process, from ever returning; the command at `cur`
\* stays the running one and never gets an exit status to record
ExecHangs ==
    /\ status = "running" /\ ~suspended /\ cur.kind \in {"exec", "generate", "probe"}
    /\ status' = "hung"
    /\ UNCHANGED <<fs, cwd, type, pc, cur, pnpmVersion, err, failedAt, cmdLog, writeLog,
                   prompts, logged, mkdirLog>>
    /\ Frame
    /\ Sync

GeneratorFile == File(Content("create-next-app", <<>>, <<>>))

\* what a successful create-next-app leaves in appDir
generated(f, appDir, git) ==
    LET made == mkdirSync(f, appDir \o Lit(<<"src", "app">>), TRUE).fs
        files == {appDir \o Lit(<<"package.json">>),
                  appDir \o Lit(<<"src", "app", "page.tsx">>)}
        withFiles == [q \in DOMAIN made \cup files |->
                         IF q \in files THEN GeneratorFile ELSE made[q]]
    IN IF git THEN Put(withFiles, appDir \o Lit(<<".git">>), Dir) ELSE withFiles

CanGenerate(f, appDir) ==
    /\ mkdirSync(f, appDir \o Lit(<<"src", "app">>), TRUE).ok
    /\ ~IsDir(f, appDir \o Lit(<<"package.json">>))
    /\ ~IsDir(f, appDir \o Lit(<<"src", "app", "page.tsx">>))
    /\ ~IsFile(f, appDir \o Lit(<<".git">>))

\* mutant: the generator call is wrapped in a try/catch that carries on
GenerateStep_Absorbed ==
    /\ At("generate")
    /\ \/ /\ CanGenerate(fs, Target)
          /\ \E git \in BOOLEAN : fs' = generated(fs, Target, git)
          /\ cmdLog' = Started(Cur, TRUE, <<>>)
       \/ /\ cmdLog' = Started(Cur, FALSE, <<>>)
          /\ UNCHANGED fs
    /\ Advance
    /\ UNCHANGED <<cwd, type, pnpmVersion, writeLog, prompts, logged, mkdirLog>>
    /\ Frame
    /\ Sync

\* execSync(`npx create-next-app@latest ${appDir} ...`)
GenerateStep ==
    /\ At("generate")
    /\ \/ /\ CanGenerate(fs, Target)
          /\ \E git \in BOOLEAN : fs' = generated(fs, Target, git)
          /\ cmdLog' = Started(Cur, TRUE, <<>>)
          /\ Advance
       \/ /\ cmdLog' = Started(Cur, FALSE, <<>>)
          /\ Throw("CommandFailed")
          /\ UNCHANGED fs
    /\ UNCHANGED <<cwd, type, pnpmVersion, writeLog, prompts, logged, mkdirLog>>
    /\ Frame
    /\ Sync

\* mutant: process.chdir(appName) is left out
ChdirStep_Skipped ==
    /\ At("chdir")
    /\ Advance
    /\ UNCHANGED <<fs, cwd, type, pnpmVersion, cmdLog, writeLog, prompts, logged, mkdirLog>>
    /\ Frame
    /\ Sync

ChdirStep ==
    /\ At("chdir")
    /\ IF IsDir(fs, Target)
       THEN cwd' = Target /\ Advance
       ELSE Throw("ENOENT") /\ UNCHANGED cwd
    /\ UNCHANGED <<fs, type, pnpmVersion, cmdLog, writeLog, prompts, logged, mkdirLog>>
    /\ Frame
    /\ Sync

\* getPnpmVersion(): the one execSync inside a try/catch
ProbeStep ==
    /\ At("probe")
    /\ \E ok \in BOOLEAN, out \in ProbeOutputs :
          /\ ok \/ out = <<>>
          /\ cmdLog' = Started(Cur, ok, out)
          /\ pnpmVersion' = getPnpmVersion(ok, out)
          /\ AdvanceWith(type, getPnpmVersion(ok, out))
    /\ UNCHANGED <<fs, cwd, type, writeLog, prompts, logged, mkdirLog>>
    /\ Frame
    /\ Sync

\* mutant: prettier.format(...) is called without await
AwaitStep_NotAwaited ==
    /\ At("await")
    /\ pending' = pending \cup {"format"}
    /\ Advance
    /\ UNCHANGED <<fs, cwd, type, pnpmVersion, cmdLog, writeLog, prompts, logged, mkdirLog,
                   suspended>>
    /\ Frame

\* await prettier.format(...): the call is started and the handler is parked
AwaitStep ==
    /\ At("await")
    /\ pending' = pending \cup {"format"}
    /\ suspended' = TRUE
    /\ UNCHANGED <<fs, cwd, status, type, pc, cur, pnpmVersion, err, failedAt, cmdLog,
                   writeLog, prompts, logged, mkdirLog>>
    /\ Frame

\* the formatter's promise is fulfilled: the handler resumes with the formatted
\* text, which the event loop allows once the top-level code has run to its end
FormatSettled ==
    /\ status = "running" /\ suspended /\ cur.kind = "await"
    /\ main = "ended"
    /\ pending' = pending \ {"format"}
    /\ suspended' = FALSE
    /\ Advance
    /\ UNCHANGED <<fs, cwd, type, pnpmVersion, cmdLog, writeLog, prompts, logged, mkdirLog>>
    /\ Frame

RmStep ==
    /\ At("rm")
    /\ fs' = IF existsSync(fs, Target) THEN rmSync(fs, Target) ELSE fs
    /\ Advance
    /\ UNCHANGED <<cwd, type, pnpmVersion, cmdLog, writeLog, prompts, logged, mkdirLog>>
    /\ Frame
    /\ Sync

\* type = await select({ choices: next | node }): the prompt is shown and the
\* handler is parked
SelectStep ==
    /\ At("select")
    /\ prompts' = prompts + 1
    /\ pending' = pending \cup {"select"}
    /\ suspended' = TRUE
    /\ UNCHANGED <<fs, cwd, status, type, pc, cur, pnpmVersion, err, failedAt, cmdLog,
                   writeLog, logged, mkdirLog>>
    /\ Frame

\* the user picks a choice: the handler resumes with it in `type`
SelectSettled ==
    /\ status = "running" /\ suspended /\ cur.kind = "select"
    /\ main = "ended"
    /\ \E choice \in {"next", "node"} :
          /\ type' = choice
          /\ AdvanceWith(choice, pnpmVersion)
    /\ pending' = pending \ {"select"}
    /\ suspended' = FALSE
    /\ UNCHANGED <<fs, cwd, pnpmVersion, cmdLog, writeLog, prompts, logged, mkdirLog>>
    /\ Frame

LogStep ==
    /\ At("log")
    /\ logged' = TRUE
    /\ Advance
    /\ UNCHANGED <<fs, cwd, type, pnpmVersion, cmdLog, writeLog, prompts, mkdirLog>>
    /\ Frame
    /\ Sync

\* the handler returns
Return ==
    /\ At("return")
    /\ status' = "done"
    /\ UNCHANGED <<fs, cwd, type, pc, cur, pnpmVersion, err, failedAt, cmdLog, writeLog,
                   prompts, logged, mkdirLog>>
    /\ Frame
    /\ Sync

\* program.parse() returns to the top-level code, which ends: the action
\* callback has returned, the async handler being parked on an await or settled
ParseReturns ==
    /\ main = "parse"
    /\ suspended \/ status \in {"done", "failed"}
    /\ main' = "ended"
    /\ UNCHANGED <<handlerVars, exitCode>>

\* mutant: the handler's promise gets a .catch(() => {}) that drops the error
Exit_Swallowed ==
    /\ main = "ended"
    /\ status \in {"done", "failed"}
    /\ exitCode = -1
    /\ exitCode' = 0
    /\ UNCHANGED <<handlerVars, main>>

\* the process ends: nothing handles the rejection of the handler's promise, so
\* Node reports it as an uncaught error and exits with 1; otherwise it exits
\* with 0 when the event loop is empty
Exit ==
    /\ main = "ended"
    /\ status \in {"done", "failed"}
    /\ exitCode = -1
    /\ exitCode' = IF status = "failed" THEN 1 ELSE 0
    /\ UNCHANGED <<handlerVars, main>>

Next ==
    \/ InvokeInit
    \/ InvokeApp
    \/ Rerun
    \/ MkdirStep
    \/ WriteStep
    \/ ExecStep
    \/ ExecHangs
    \/ GenerateStep
    \/ ChdirStep
    \/ ProbeStep
    \/ AwaitStep
    \/ FormatSettled
    \/ RmStep
    \/ SelectStep
    \/ SelectSettled
    \/ ParseReturns
    \/ Exit
    \/ LogStep
    \/ Return

Spec == Init /\ [][Next]_vars

\* what the process does by itself once started: the handler's statements, the
\* settling of the promises it awaits, the return of the synchronous calls
Progress ==
    \/ MkdirStep
    \/ WriteStep
    \/ ExecStep
    \/ GenerateStep
    \/ ChdirStep
    \/ ProbeStep
    \/ AwaitStep
    \/ FormatSettled
    \/ RmStep
    \/ SelectStep
    \/ SelectSettled
    \/ LogStep
    \/ Return
    \/ ParseReturns
    \/ Exit

\* Progress can take a step: the handler is running (at a statement, or parked
\* with its promise or the end of the top-level code still to come), or it has
\* ended and the process has yet to exit
CanProgress ==
    \/ status = "running"
    \/ status \in {"done", "failed"} /\ exitCode = -1

\* a step of the started process other than a command's hanging: within Next
\* these are the steps of Progress
ProcessStep == runs' = runs /\ status' # "hung"

\* weak fairness of Progress, with ENABLED <<Progress>>_vars and
\* <<Progress>>_vars written out as CanProgress and <<ProcessStep>>_vars: the
\* runs in which the prompt is answered, the formatter settles and every
\* command that does not hang returns
LiveSpec == Spec /\ ([]<>(~CanProgress) \/ []<><<ProcessStep>>_vars)

----------------------------------------------------------------------------
(* Vocabulary of the properties *)

Terminal == status \in {"done", "failed"}

CmdKinds == {"exec", "generate", "probe"}

\* the root of the project the run works on
ProjectRoot == IF op = "init" THEN Resolve(startCwd, Split(name)) ELSE startCwd

\* the directory of the app that `app <name>` creates
AppDirAbs == Resolve(startCwd, pathJoin(Lit(<<"apps">>), Split(name)))

StrictlyUnder(dir, p) == IsPrefix(dir, p) /\ p # dir

\* writes that come from the entries of a `files` object
FileMapWrite(s) == s.kind = "write" /\ s.line \in {79, 138, 177}

AllCommandsOk == \A i \in 1..Len(cmdLog) : cmdLog[i].ok \/ cmdLog[i].cmd = "pnpm --version"

\* the content the run last gave to path p
LastWritten(p) ==
    LET idx == {i \in 1..Len(writeLog) : writeLog[i].path = p}
        last == CHOOSE i \in idx : \A j \in idx : j <= i
    IN writeLog[last].content

\* t is out without its leading and trailing whitespace
IsTrimOf(t, out) ==
    \E a \in 0..Len(out), b \in 0..Len(out) :
        /\ a + b <= Len(out)
        /\ \A k \in 1..a : out[k] = "ws"
        /\ \A k \in (Len(out) - b + 1)..Len(out) : out[k] = "ws"
        /\ t = SubSeq(out, a + 1, Len(out) - b)
        /\ t = <<>> \/ (t[1] # "ws" /\ t[Len(t)] # "ws")

----------------------------------------------------------------------------
(* Properties *)

\* C1: no silent overwrite.  A materialization that is about to write a path
\* that already holds a file fails with DestinationExists, leaves that file
\* as it was and writes no other file of the package/app.
C1_NoSilentOverwrite ==
    /\ \A i \in 1..Len(writeLog) : ~writeLog[i].existed
    /\ (/\ op = "app" /\ status # "idle"
        /\ \E k \in 1..Len(Script) :
              Script[k].kind = "write" /\ IsFile(startFs, Resolve(startCwd, Script[k].path)))
       => /\ writeLog = <<>>
          /\ (Terminal /\ AllCommandsOk) => (status = "failed" /\ err = "DestinationExists")

\* C2: `app <name> --node` run a second time after a successful first run
\* fails with DestinationExists and leaves every file under apps/<name> with
\* the content the first run gave it.
C2_SecondRunRejected ==
    (op = "app" /\ optNode /\ ~optNext /\ prev = "done" /\ status # "idle")
    => /\ (Terminal /\ AllCommandsOk) => (status = "failed" /\ err = "DestinationExists")
       /\ \A p \in DOMAIN startFs :
             (IsPrefix(AppDirAbs, p) /\ IsFile(startFs, p)) =>
                (p \in DOMAIN fs /\ fs[p] = startFs[p])

\* C3: fail-fast ordering.  When a required command is the first to exit
\* non-zero, the commands up to it were started once each in program order,
\* it is the last command started and the one the failure names, nothing was
\* written after it, and nothing at all happens afterwards in that run.
C3_State ==
    (status = "failed" /\ err = "CommandFailed") =>
       LET s == Script
           idx == {i \in 1..failedAt : s[i].kind \in CmdKinds} IN
       /\ s[failedAt].kind \in {"exec", "generate"}
       /\ Len(cmdLog) = Cardinality(idx)
       /\ {cmdLog[i].at : i \in 1..Len(cmdLog)} = idx
       /\ \A i, j \in 1..Len(cmdLog) : i < j => cmdLog[i].at < cmdLog[j].at
       /\ \A i \in 1..Len(cmdLog) : cmdLog[i].cmd = s[cmdLog[i].at].cmd
       /\ cmdLog[Len(cmdLog)].at = failedAt
       /\ ~cmdLog[Len(cmdLog)].ok
       /\ \A i \in 1..(Len(cmdLog) - 1) : cmdLog[i].ok \/ s[cmdLog[i].at].kind = "probe"
       /\ \A i \in 1..Len(writeLog) : writeLog[i].at < failedAt
       /\ ~logged

C3_Step == (status = "failed" /\ runs' = runs) => UNCHANGED handlerVars

C3_FailFast == [](C3_State) /\ [][C3_Step]_vars

C3_Witness ==
    /\ status = "failed" /\ err = "CommandFailed"
    /\ Len(cmdLog) >= 3
    /\ failedAt + 1 < Len(Script)
    /\ \E k \in (failedAt + 1)..Len(Script) : Script[k].kind = "exec"

\* C4: path confinement of file-set keys.  If a key of the file map resolves
\* outside the project root, the materialization fails with PathEscape and
\* writes nothing.
C4_PathConfinement ==
    (/\ status # "idle"
     /\ \E k \in 1..Len(Script) :
           /\ FileMapWrite(Script[k])
           /\ ~IsPrefix(ProjectRoot, Resolve(ProjectRoot, Script[k].path)))
    => /\ writeLog = <<>>
       /\ (Terminal /\ AllCommandsOk) => (status = "failed" /\ err = "PathEscape")

\* C5: confinement of the app directory.  The directory `app <name>` creates
\* and writes into is under apps/ of the project root; a name that leads
\* elsewhere is rejected and nothing is created.
C5_AppDirConfined ==
    (op = "app" /\ status # "idle") =>
       /\ \A d \in mkdirLog : IsPrefix(startCwd \o Lit(<<"apps">>), d)
       /\ \A i \in 1..Len(writeLog) :
             StrictlyUnder(startCwd \o Lit(<<"apps">>), writeLog[i].path)
       /\ ~StrictlyUnder(startCwd \o Lit(<<"apps">>), AppDirAbs) =>
             /\ fs = startFs
             /\ Terminal => status = "failed"

\* C6: the project root must not pre-exist.  If <name> exists in the working
\* directory, init fails at its first step: the working directory is not
\* changed, nothing is written, no command is started, and the file system
\* is left as it was.
C6_RootMustNotExist ==
    (op = "init" /\ status # "idle" /\ existsSync(startFs, Resolve(startCwd, Split(name))))
    => /\ pc = 1
       /\ status # "done"
       /\ status = "failed" => (failedAt = 1 /\ err = "EEXIST")
       /\ cwd = startCwd
       /\ fs = startFs
       /\ cmdLog = <<>>
       /\ writeLog = <<>>
       /\ mkdirLog = {}

C6_Witness ==
    /\ op = "init" /\ status = "failed" /\ failedAt = 1
    /\ IsDir(startFs, Resolve(startCwd, Split(name)))
    /\ \E p \in DOMAIN startFs : StrictlyUnder(Resolve(startCwd, Split(name)), p)

\* C7: best-effort version probe.  A failing probe does not end the run and
\* the root package.json gets packageManager pnpm@9.7.0; a succeeding probe
\* gives pnpm@ followed by its output without surrounding whitespace.
C7_VersionProbe ==
    (op = "init" /\ status # "idle") =>
       /\ status = "failed" => Script[failedAt].kind # "probe"
       /\ \A i \in 1..Len(writeLog) :
             writeLog[i].content.tpl = "root/package.json" =>
                LET probe == cmdLog[1]
                    pm == writeLog[i].content.extra
                IN /\ probe.cmd = "pnpm --version"
                   /\ ~probe.ok => pm = <<"pnpm@", "9.7.0">>
                   /\ probe.ok => \E t \in ProbeOutputs :
                                     IsTrimOf(t, probe.out) /\ pm = <<"pnpm@">> \o t
                   /\ IsFile(fs, writeLog[i].path)
                   /\ fs[writeLog[i].path].content = writeLog[i].content
       /\ status = "done" =>
             \E i \in 1..Len(writeLog) : writeLog[i].content.tpl = "root/package.json"

C7_Witness ==
    /\ op = "init" /\ status = "done"
    /\ ~cmdLog[1].ok
    /\ fs[ProjectRoot \o Lit(<<"package.json">>)].content.extra = <<"pnpm@", "9.7.0">>

\* C8: the version probe is the only command whose failure is absorbed.  A
\* non-zero exit of any other command ends the run at that command: it is the
\* last command started, no step follows it and success is not reported.
C8_OnlyProbeAbsorbed ==
    \A i \in 1..Len(cmdLog) :
       (~cmdLog[i].ok /\ cmdLog[i].cmd # "pnpm --version") =>
          /\ status = "failed"
          /\ err = "CommandFailed"
          /\ i = Len(cmdLog)
          /\ failedAt = cmdLog[i].at
          /\ pc = cmdLog[i].at
          /\ \A j \in 1..Len(writeLog) : writeLog[j].at < cmdLog[i].at
          /\ ~logged

C8_Witness ==
    /\ status = "failed"
    /\ Len(cmdLog) >= 2
    /\ ~cmdLog[1].ok /\ cmdLog[1].cmd = "pnpm --version"
    /\ cmdLog[Len(cmdLog)].cmd = "npx create-next-app@latest"
    /\ ~cmdLog[Len(cmdLog)].ok

\* C9: no rollback.  When a command fails, every file the run wrote is still
\* there with the content the run last gave it, every directory the run made
\* is still there, and the failing run changes the file system no further.
C9_State ==
    (status = "failed" /\ err = "CommandFailed") =>
       /\ \A i \in 1..Len(writeLog) :
             /\ IsFile(fs, writeLog[i].path)
             /\ fs[writeLog[i].path].content = LastWritten(writeLog[i].path)
       /\ \A d \in mkdirLog : IsDir(fs, d)

C9_Step ==
    /\ (status = "running" /\ status' = "failed") => fs' = fs
    /\ (status = "failed" /\ runs' = runs) => fs' = fs

C9_NoRollback == [](C9_State) /\ [][C9_Step]_vars

C9_Witness ==
    /\ status = "failed" /\ err = "CommandFailed"
    /\ Len(writeLog) >= 2
    /\ mkdirLog # {}
    /\ fs # startFs

\* C10: layout after a successful init.  <name>/ holds pnpm-workspace.yaml,
\* package.json with name <name>, turbo.json, and the directories apps/web,
\* apps/worker and packages/{db,queue,eslint-config,typescript-config,docker-dev}.
C10_Layout ==
    (op = "init" /\ status = "done") =>
       /\ IsFile(fs, ProjectRoot \o Lit(<<"pnpm-workspace.yaml">>))
       /\ IsFile(fs, ProjectRoot \o Lit(<<"package.json">>))
       /\ fs[ProjectRoot \o Lit(<<"package.json">>)].content.name = name
       /\ IsFile(fs, ProjectRoot \o Lit(<<"turbo.json">>))
       /\ \A d \in {<<"apps", "web">>, <<"apps", "worker">>, <<"packages", "db">>,
                    <<"packages", "queue">>, <<"packages", "eslint-config">>,
                    <<"packages", "typescript-config">>, <<"packages", "docker-dev">>} :
             IsDir(fs, ProjectRoot \o Lit(d))

C10_Witness ==
    /\ op = "init" /\ status = "done" /\ name = <<"demo", "-", "app">>
    /\ IsDir(fs, Home \o <<name>> \o Lit(<<"apps", "web">>))

\* C11: database name derivation.  POSTGRES_DB in compose.yml is the project
\* name with every hyphen replaced by an underscore, followed by _dev; the
\* DATABASE_URL of packages/db/.env names the same database; compose.yml
\* declares postgres on 5432 and redis on 6379.
ExpectedDbName(d) ==
    /\ Len(d) = Len(name) + 1
    /\ d[Len(d)] = "_dev"
    /\ \A i \in 1..Len(name) : d[i] = (IF name[i] = "-" THEN "_" ELSE name[i])

C11_DbName ==
    (op = "init" /\ status # "idle") =>
       /\ \A i \in 1..Len(writeLog) :
             LET w == writeLog[i] IN
             /\ w.content.tpl = "docker-dev/compose.yml" =>
                   /\ w.path = ProjectRoot \o Lit(<<"packages", "docker-dev", "compose.yml">>)
                   /\ ExpectedDbName(w.content.extra)
                   /\ w.content.name = <<"postgres", "5432:5432", "redis", "6379:6379">>
             /\ w.content.tpl = "db/.env" =>
                   /\ w.path = ProjectRoot \o Lit(<<"packages", "db", ".env">>)
                   /\ ExpectedDbName(w.content.extra)
       /\ status = "done" =>
             /\ IsFile(fs, ProjectRoot \o Lit(<<"packages", "docker-dev", "compose.yml">>))
             /\ ExpectedDbName(fs[ProjectRoot \o Lit(<<"packages", "docker-dev", "compose.yml">>)].content.extra)
             /\ IsFile(fs, ProjectRoot \o Lit(<<"packages", "db", ".env">>))
             /\ fs[ProjectRoot \o Lit(<<"packages", "db", ".env">>)].content.extra =
                   fs[ProjectRoot \o Lit(<<"packages", "docker-dev", "compose.yml">>)].content.extra

C11_Witness ==
    /\ op = "init" /\ status = "done"
    /\ Cardinality({i \in 1..Len(name) : name[i] = "-"}) >= 2
    /\ fs[ProjectRoot \o Lit(<<"packages", "db", ".env">>)].content.extra =
          <<"a", "_", "b", "_", "c", "_dev">>

\* C12: frame of adding a Node app.  `app <name> --node` with a name other
\* than web or worker creates apps/<name>/package.json named @repo/<name> and
\* apps/<name>/src/index.ts, writes only under apps/<name>, and creates,
\* modifies or deletes no file under apps/web or apps/worker.
UnderSiblingApp(p) ==
    \/ StrictlyUnder(startCwd \o Lit(<<"apps", "web">>), p)
    \/ StrictlyUnder(startCwd \o Lit(<<"apps", "worker">>), p)

C12_NodeAppFrame ==
    (op = "app" /\ status # "idle" /\ optNode /\ ~optNext
        /\ name \notin {<<"web">>, <<"worker">>}) =>
       /\ \A i \in 1..Len(writeLog) : StrictlyUnder(AppDirAbs, writeLog[i].path)
       /\ \A p \in DOMAIN fs \cup DOMAIN startFs :
             UnderSiblingApp(p) =>
                /\ p \in DOMAIN fs <=> p \in DOMAIN startFs
                /\ p \in DOMAIN fs /\ p \in DOMAIN startFs => fs[p] = startFs[p]
       /\ status = "done" =>
             /\ IsFile(fs, AppDirAbs \o Lit(<<"package.json">>))
             /\ fs[AppDirAbs \o Lit(<<"package.json">>)].content =
                   Content("node-app/package.json", <<"@repo/">> \o name, <<>>)
             /\ IsFile(fs, AppDirAbs \o Lit(<<"src", "index.ts">>))

\* C13: exit status.  The process exits with 0 exactly when every step of the
\* run succeeded, and with a non-zero status whenever a file-system step or a
\* required command failed; so it is for `app`, whose handler is not awaited.
EveryStepSucceeded ==
    /\ err = "none"
    /\ failedAt = 0
    /\ \A i \in 1..Len(cmdLog) : cmdLog[i].ok \/ cmdLog[i].cmd = "pnpm --version"
    /\ pc = Len(Script) + 1
    /\ logged

C13_ExitStatus ==
    /\ exitCode # -1 => (exitCode = 0 <=> EveryStepSucceeded)
    /\ (exitCode # -1 /\ err # "none") => exitCode > 0
    /\ exitCode # -1 => Terminal /\ main = "ended"

C13_Witness ==
    /\ op = "app" /\ exitCode = 1
    /\ err = "CommandFailed"
    /\ writeLog # <<>>

\* C14: prompt discipline of `app`.  The kind prompt is shown exactly once
\* when neither --next nor --node is given and never when one is given; the
\* kind is resolved before any directory is created, any file written or any
\* command started; exactly one app, of the resolved kind, is created.
NodeManifestWrites ==
    {i \in 1..Len(writeLog) : writeLog[i].content.tpl = "node-app/package.json"}

GeneratorRuns ==
    {i \in 1..Len(cmdLog) : cmdLog[i].cmd = "npx create-next-app@latest"}

C14_PromptDiscipline ==
    (op = "app" /\ status # "idle") =>
       /\ (optNext \/ optNode) => prompts = 0
       /\ (optNext /\ ~optNode) => type = "next"
       /\ (optNode /\ ~optNext) => type = "node"
       /\ (~optNext /\ ~optNode) =>
             /\ prompts <= 1
             /\ type # "none" <=> (prompts = 1 /\ "select" \notin pending)
             /\ Terminal => prompts = 1
       /\ type = "none" =>
             /\ fs = startFs
             /\ mkdirLog = {}
             /\ writeLog = <<>>
             /\ cmdLog = <<>>
       /\ "select" \in pending => (fs = startFs /\ writeLog = <<>> /\ cmdLog = <<>>)
       /\ status = "done" =>
             /\ type = "node" =>
                   /\ Cardinality(NodeManifestWrites) = 1
                   /\ GeneratorRuns = {}
                   /\ \A i \in NodeManifestWrites :
                         writeLog[i].path = AppDirAbs \o Lit(<<"package.json">>)
             /\ type = "next" =>
                   /\ Cardinality(GeneratorRuns) = 1
                   /\ NodeManifestWrites = {}
             /\ type \in {"next", "node"}

C14_Witness ==
    /\ op = "app" /\ status = "done"
    /\ ~optNext /\ ~optNode
    /\ prompts = 1
    /\ type = "node"
    /\ NodeManifestWrites # {}

\* C15: kind flags are mutually exclusive.  An `app` invocation that gives
\* both --next and --node is rejected and creates no app; with exactly one
\* flag the app is of that kind.
C15_FlagsExclusive ==
    (op = "app" /\ status # "idle") =>
       /\ (optNext /\ optNode) =>
             /\ fs = startFs
             /\ mkdirLog = {}
             /\ writeLog = <<>>
             /\ cmdLog = <<>>
             /\ status # "done"
             /\ exitCode # 0
       /\ (optNext /\ ~optNode) => type = "next"
       /\ (optNode /\ ~optNext) => type = "node"

HelperCommandLines == {85, 144, 151, 220}

C17_State ==
    /\ Cardinality(pending) <= 1
    /\ pending # {} => (suspended /\ status = "running")
    /\ suspended => (pending # {} /\ cur.kind \in {"await", "select"})

StepStarts ==
    \/ fs' # fs
    \/ cwd' # cwd
    \/ Len(cmdLog') > Len(cmdLog)
    \/ Len(writeLog') > Len(writeLog)
    \/ prompts' > prompts
    \/ logged' /\ ~logged
    \/ pending' \ pending # {}

C17_Step ==
    /\ (runs' = runs /\ StepStarts) =>
          /\ pending = {}
          /\ ~suspended
          /\ pc' \in {pc, pc + 1}
    /\ (runs' = runs /\ suspended /\ ~suspended') => main = "ended"

C17_Sequential == [](C17_State) /\ [][C17_Step]_vars

C17_Witness ==
    /\ op = "init" /\ status = "running"
    /\ main = "ended"
    /\ pending = {}
    /\ \E i \in 1..Len(writeLog) : writeLog[i].content.tpl = "turbo.json"

\* what getPnpmVersion can return, over everything the probe may print
ProbeResults == {FallbackVersion} \cup {trim(out) : out \in ProbeOutputs}

\* the body of the running handler, had the probe returned v
ScriptUnder(v) == ScriptOf(op, name, optNext, optNode, type, v)

\* the state a write leaves: every write of a run is the last one there, so a
\* property of the last write in these states is a property of every write
JustWritten == writeLog # <<>> /\ pc = writeLog[Len(writeLog)].at + 1

\* C18 (as stated): deterministic rendering.  The content of every generated
\* file is a function of the explicit parameters (name, kind) only: the run
\* writes the same paths with the same content whatever the version probe
\* returns.
C18_Deterministic ==
    JustWritten =>
       \A v \in ProbeResults :
           LET s == ScriptUnder(v)
               w == writeLog[Len(writeLog)] IN
           /\ s[w.at].kind = "write"
           /\ Resolve(ProjectRoot, s[w.at].path) = w.path
           /\ s[w.at].content = w.content

\* C18 (amended): every generated file except the root package.json is a
\* function of the explicit parameters only; the root package.json depends on
\* them and, in its packageManager field alone, on what the version probe
\* returned.
C18_DeterministicButManifest ==
    JustWritten =>
       \A v \in ProbeResults :
           LET s == ScriptUnder(v)
               w == writeLog[Len(writeLog)] IN
           /\ s[w.at].kind = "write"
           /\ Resolve(ProjectRoot, s[w.at].path) = w.path
           /\ IF w.content.tpl = "root/package.json"
              THEN /\ s[w.at].content.tpl = "root/package.json"
                   /\ s[w.at].content.name = w.content.name
                   /\ w.content.name = name
                   /\ w.content.extra = <<"pnpm@">> \o pnpmVersion
                   /\ w.path = ProjectRoot \o Lit(<<"package.json">>)
              ELSE s[w.at].content = w.content

C18_Witness ==
    /\ op = "init" /\ status = "done"
    /\ pnpmVersion = <<"v", "v">>
    /\ \E i \in 1..Len(writeLog) : writeLog[i].content.tpl = "root/package.json"
    /\ \E i \in 1..Len(writeLog) : writeLog[i].content.tpl = "README.md"

\* C19: working-directory discipline of init.  The only file-system action
\* relative to the caller's directory is the creation of the root directory;
\* the working directory is the new root before every other write and every
\* command, each of which targets a path at or below the new root; it is
\* never changed back, on success or on failure.
C19_State ==
    (op = "init" /\ status # "idle") =>
       /\ pc <= 2 =>
             /\ cwd = startCwd
             /\ writeLog = <<>>
             /\ cmdLog = <<>>
             /\ mkdirLog \subseteq {ProjectRoot}
       /\ pc > 2 =>
             /\ cwd = ProjectRoot
             /\ cwd # startCwd
             /\ ProjectRoot \in mkdirLog
       /\ \A i \in 1..Len(writeLog) : StrictlyUnder(ProjectRoot, writeLog[i].path)
       /\ \A j \in 1..Len(cmdLog) : IsPrefix(ProjectRoot, cmdLog[j].dir)
       /\ \A p \in mkdirLog : IsPrefix(ProjectRoot, p)
       /\ \A p \in DOMAIN fs \cup DOMAIN startFs :
             (p \notin DOMAIN fs \/ p \notin DOMAIN startFs \/ fs[p] # startFs[p]) =>
                IsPrefix(ProjectRoot, p)

C19_Step == (op = "init" /\ runs' = runs /\ cwd # startCwd) => cwd' = cwd

C19_WorkingDirectory == [](C19_State) /\ [][C19_Step]_vars

C19_Witness ==
    /\ op = "init" /\ status = "failed" /\ exitCode = 1
    /\ failedAt > 2
    /\ cwd = ProjectRoot
    /\ writeLog # <<>>

\* the workspace packages X that a command adds as @repo/X@workspace:*
AddsWorkspace(c) ==
    CASE c = "pnpm add -D tsup typescript @repo/typescript-config@workspace:* @repo/eslint-config@workspace:*"
            -> {"typescript-config", "eslint-config"}
      [] c = "pnpm add @repo/typescript-config@workspace:* @repo/db@workspace:* @repo/queue@workspace:* @repo/eslint-config@workspace:*"
            -> {"typescript-config", "db", "queue", "eslint-config"}
      [] c = "pnpm add @repo/db@workspace:* @repo/queue@workspace:*"
            -> {"db", "queue"}
      [] OTHER -> {}

\* the packages and apps of a new workspace, in the order claimed
Units ==
    <<Lit(<<"packages", "typescript-config">>), Lit(<<"packages", "eslint-config">>),
      Lit(<<"packages", "docker-dev">>), Lit(<<"packages", "db">>),
      Lit(<<"packages", "queue">>), Lit(<<"apps", "worker">>), Lit(<<"apps", "web">>)>>

\* the steps at which unit k came into being: the write of its package.json,
\* or for the web app the start of its generator
CreatedAt(k) ==
    IF k = 7
    THEN {cmdLog[j].at : j \in {j \in 1..Len(cmdLog) : cmdLog[j].cmd = "npx create-next-app@latest"}}
    ELSE LET manifest == ProjectRoot \o Units[k] \o Lit(<<"package.json">>) IN
         {writeLog[i].at : i \in {i \in 1..Len(writeLog) : writeLog[i].path = manifest}}

\* C20: workspace dependency order in init.  A command that adds
\* @repo/X@workspace:* is started only after packages/X/package.json has been
\* written, and the units are created in the order typescript-config,
\* eslint-config, docker-dev, db, queue, worker, web.
C20_DependencyOrder ==
    (op = "init" /\ status # "idle") =>
       /\ \A j \in 1..Len(cmdLog) : \A x \in AddsWorkspace(cmdLog[j].cmd) :
             LET manifest == ProjectRoot \o Lit(<<"packages", x, "package.json">>) IN
             \E i \in 1..Len(writeLog) :
                /\ writeLog[i].path = manifest
                /\ writeLog[i].at < cmdLog[j].at
       /\ LET created == [k \in 1..7 |-> CreatedAt(k)] IN
          /\ \A k \in 1..7 : Cardinality(created[k]) <= 1
          /\ \A k \in 2..7 :
                created[k] # {} =>
                   /\ created[k - 1] # {}
                   /\ \A a \in created[k - 1], b \in created[k] : a < b
          /\ status = "done" => \A k \in 1..7 : created[k] # {}

C20_Witness ==
    /\ op = "init"
    /\ CreatedAt(7) # {}
    /\ \E j \in 1..Len(cmdLog) :
          /\ cmdLog[j].line = 144
          /\ cmdLog[j].dir = ProjectRoot \o Lit(<<"apps", "worker">>)
    /\ \E j \in 1..Len(cmdLog) : cmdLog[j].line = 181

\* the commands that close a successful init, in the order claimed
ClosingCommands ==
    <<"pnpm turbo run build --filter=@repo/db --ui stream", "pnpm format",
      "git init", "git add .", "git commit -m \"Initial commit\"">>

\* C21: the initial commit covers the whole tree.  In a successful init the db
\* build, the formatter, git init, git add and git commit are the last five
\* commands, in that order; the tool writes no file after git add is started,
\* and README.md and every package and app file are written before the
\* formatter is started.
C21_InitialCommit ==
    (op = "init" /\ status # "idle") =>
       /\ status = "done" =>
             /\ Len(cmdLog) >= 5
             /\ \A k \in 1..5 :
                   /\ cmdLog[Len(cmdLog) - 5 + k].cmd = ClosingCommands[k]
                   /\ cmdLog[Len(cmdLog) - 5 + k].ok
                   /\ cmdLog[Len(cmdLog) - 5 + k].dir = ProjectRoot
             /\ \A j \in 1..(Len(cmdLog) - 5) : \A k \in 1..5 :
                   cmdLog[j].cmd # ClosingCommands[k]
             /\ \E i \in 1..Len(writeLog) :
                   writeLog[i].path = ProjectRoot \o Lit(<<"README.md">>)
             /\ \A k \in 1..7 : CreatedAt(k) # {}
             /\ \A q \in DOMAIN fs :
                   (StrictlyUnder(ProjectRoot, q) /\ IsFile(fs, q)
                       /\ fs[q].content.tpl # "create-next-app") =>
                      \E i \in 1..Len(writeLog) : writeLog[i].path = q
       /\ \A j \in 1..Len(cmdLog) :
             cmdLog[j].cmd \in {"pnpm format", "git add ."} =>
                /\ \A i \in 1..Len(writeLog) : writeLog[i].at < cmdLog[j].at
                /\ \E i \in 1..Len(writeLog) :
                      writeLog[i].path = ProjectRoot \o Lit(<<"README.md">>)
                /\ \A k \in 1..7 : CreatedAt(k) # {}
       /\ \A j \in 1..Len(cmdLog) : \A k \in 2..5 :
             cmdLog[j].cmd = ClosingCommands[k] =>
                (j > 1 /\ cmdLog[j - 1].cmd = ClosingCommands[k - 1] /\ cmdLog[j - 1].ok)

C21_Witness ==
    /\ op = "init" /\ status = "done"
    /\ cmdLog[Len(cmdLog)].cmd = "git commit -m \"Initial commit\""
    /\ \E i \in 1..Len(writeLog) : writeLog[i].content.tpl = "README.md"

\* the directory of the Next app this run creates
NextAppDir == IF op = "init" THEN ProjectRoot \o Lit(<<"apps", "web">>) ELSE AppDirAbs

\* the tool's own writes below that directory
TemplateWrites == {i \in 1..Len(writeLog) : StrictlyUnder(NextAppDir, writeLog[i].path)}

\* the workspace dependency installs of createNextApp
NextInstalls == {j \in 1..Len(cmdLog) : cmdLog[j].line = 181}

\* C22: createNextApp ordering.  The generator runs first; only after it has
\* succeeded is a .git directory in the app removed and are the template files
\* written, so that a path both produce ends with the template's content; the
\* workspace dependency install comes last, and by then apps/<name>/.git does
\* not exist.  If the generator fails, no template file is written.
C22_NextAppOrder ==
    (status # "idle" /\ (op = "init" \/ type = "next")) =>
       /\ Cardinality(GeneratorRuns) <= 1
       /\ \A i \in TemplateWrites :
             \E g \in GeneratorRuns : cmdLog[g].ok /\ cmdLog[g].at < writeLog[i].at
       /\ \A g \in GeneratorRuns :
             ~cmdLog[g].ok =>
                /\ TemplateWrites = {}
                /\ status = "failed"
                /\ \A i \in 1..Len(writeLog) : writeLog[i].at < cmdLog[g].at
       /\ \A j \in NextInstalls :
             /\ cmdLog[j].dir = NextAppDir
             /\ \E g \in GeneratorRuns : cmdLog[g].ok /\ cmdLog[g].at < cmdLog[j].at
             /\ \A i \in TemplateWrites : writeLog[i].at < cmdLog[j].at
             /\ ~existsSync(fs, NextAppDir \o Lit(<<".git">>))
             /\ \A i \in TemplateWrites :
                   /\ IsFile(fs, writeLog[i].path)
                   /\ fs[writeLog[i].path].content = LastWritten(writeLog[i].path)
             /\ op = "init" =>
                   /\ IsFile(fs, NextAppDir \o Lit(<<"src", "app", "page.tsx">>))
                   /\ fs[NextAppDir \o Lit(<<"src", "app", "page.tsx">>)].content =
                         T("web/src/app/page.tsx")
                   /\ Cardinality(TemplateWrites) = Len(webFiles)
       /\ (status = "done" /\ type = "next") => NextInstalls # {}
       /\ (status = "done" /\ op = "init") => NextInstalls # {}

C22_Witness ==
    /\ op = "init" /\ status = "running"
    /\ \E j \in NextInstalls : cmdLog[j].ok
    /\ fs[NextAppDir \o Lit(<<"src", "app", "page.tsx">>)].content = T("web/src/app/page.tsx")
    /\ fs[NextAppDir \o Lit(<<"package.json">>)] = GeneratorFile

\* C23 (as stated): truthful success report.  The `initialized successfully`
\* line is printed only in a run in which every preceding file write and
\* every preceding external command succeeded.
C23_TruthfulReport ==
    logged =>
       /\ err = "none"
       /\ \A j \in 1..Len(cmdLog) : cmdLog[j].ok

\* the steps of body s, of the given kinds, that the handler has passed
Passed(s, kinds) == {k \in 1..(pc - 1) : s[k].kind \in kinds}

C23_State ==
    status # "idle" =>
       LET s == Script IN
       /\ pc <= Len(s) + 1
       /\ \A i, j \in 1..Len(cmdLog) : i < j => cmdLog[i].at < cmdLog[j].at
       /\ \A i, j \in 1..Len(writeLog) : i < j => writeLog[i].at < writeLog[j].at
       /\ logged =>
             /\ err = "none"
             /\ status \in {"running", "done"}
             /\ {writeLog[i].at : i \in 1..Len(writeLog)} = Passed(s, {"write"})
             /\ {cmdLog[j].at : j \in 1..Len(cmdLog)} = Passed(s, CmdKinds)
             /\ \A j \in 1..Len(cmdLog) : cmdLog[j].ok \/ cmdLog[j].cmd = "pnpm --version"
             /\ \A i \in 1..Len(writeLog) :
                   \E q \in DOMAIN fs : q = writeLog[i].path /\ IsFile(fs, q)
       /\ status = "hung" =>
             /\ cur.kind \in CmdKinds
             /\ ~logged
             /\ exitCode = -1

C23_Step ==
    /\ status = "hung" => UNCHANGED vars
    /\ runs' = runs => pc' \in {pc, pc + 1}
    /\ (runs' = runs /\ Len(cmdLog') > Len(cmdLog)) =>
          LET c == cmdLog'[Len(cmdLog')] IN
          /\ Len(cmdLog') = Len(cmdLog) + 1
          /\ c.at = pc
          /\ IF c.ok \/ c.cmd = "pnpm --version"
             THEN pc' = pc + 1 /\ status' = "running"
             ELSE pc' = pc /\ status' = "failed"
    /\ (runs' = runs /\ Len(writeLog') > Len(writeLog)) => pc' = pc + 1

C23_Terminates == (status = "running") ~> (status \in {"done", "failed", "hung"})

\* C23 (amended): provided the prompt and every started command return, every
\* run ends in success or failure after finitely many steps, none of them
\* retried; the success line is printed only when every preceding write and
\* every preceding command except the version probe succeeded; a command that
\* never returns blocks every later step, and the exit of the process, forever.
C23_TerminationAndReport == [](C23_State) /\ [][C23_Step]_vars /\ C23_Terminates

C23_Witness ==
    /\ op = "init" /\ status = "done" /\ logged
    /\ exitCode = 0
    /\ ~cmdLog[1].ok /\ cmdLog[1].cmd = "pnpm --version"
    /\ \A j \in 2..Len(cmdLog) : cmdLog[j].ok

====
